---- MODULE Spec2Model ----
(***************************************************************************)
(* pcurl (src/index.ts): one command-line invocation.                      *)
(*                                                                         *)
(*   argv --commander--> options, url --action--> axios config             *)
(*        --axios--> response | error --render / catch--> stdout, stderr,  *)
(*        exit code                                                        *)
(*                                                                         *)
(* Text the code splits, trims, searches or parses is a sequence of        *)
(* one-character strings, so that String.split, String.trim,               *)
(* String.includes, JSON.parse and JSON.stringify are computed and not     *)
(* assumed.  Text the code only passes through (a status text, an error    *)
(* message) is a TLA+ string.                                              *)
(***************************************************************************)
EXTENDS Integers, Sequences, FiniteSets, TLC

VARIABLES argv, net, pc, options, url, config, data, stdout, stderr, exitCode

vars == <<argv, net, pc, options, url, config, data, stdout, stderr, exitCode>>

(***************************************************************************)
(* Bounds of the model.                                                    *)
(***************************************************************************)
\* the number of -H flags on a command line
MaxHeaderFlags == 2
\* the number of body flags (-d, --data-raw, --data-binary) on a command line
MaxDataFlags == 3
\* the number of undeclared flags added to a command line
MaxUnknownFlags == 1

(***************************************************************************)
(* JavaScript strings and optional strings.                                *)
(***************************************************************************)
Undefined == [def |-> FALSE, s |-> <<>>]

Str(s) == [def |-> TRUE, s |-> s]

\* JavaScript truthiness of a string-or-undefined: defined and not empty.
Truthy(o) == o.def /\ o.s # <<>>

\* a || b
OrElse(a, b) == IF Truthy(a) THEN a ELSE b

RECURSIVE Concat(_)
\* the concatenation of a sequence of sequences
Concat(parts) == IF parts = <<>> THEN <<>> ELSE Head(parts) \o Concat(Tail(parts))

RECURSIVE Split(_, _)
\* String.prototype.split(sep) for a one-character separator
Split(s, sep) ==
  IF \A i \in 1..Len(s) : s[i] # sep THEN <<s>>
  ELSE LET i == CHOOSE k \in 1..Len(s) :
                  s[k] = sep /\ \A j \in 1..(k - 1) : s[j] # sep
       IN <<SubSeq(s, 1, i - 1)>> \o Split(SubSeq(s, i + 1, Len(s)), sep)

RECURSIVE Join(_, _)
\* Array.prototype.join(sep)
Join(parts, sep) ==
  IF parts = <<>> THEN <<>>
  ELSE IF Len(parts) = 1 THEN parts[1]
  ELSE parts[1] \o <<sep>> \o Join(Tail(parts), sep)

IsSpace(c) == c \in {" ", "\n"}

RECURSIVE TrimStart(_)
TrimStart(s) ==
  IF s # <<>> /\ IsSpace(Head(s)) THEN TrimStart(Tail(s)) ELSE s

RECURSIVE TrimEnd(_)
TrimEnd(s) ==
  IF s # <<>> /\ IsSpace(s[Len(s)]) THEN TrimEnd(SubSeq(s, 1, Len(s) - 1)) ELSE s

\* String.prototype.trim()
Trim(s) == TrimEnd(TrimStart(s))

\* String.prototype.includes(sub)
Includes(s, sub) ==
  \E i \in 1..(Len(s) + 1) :
    /\ i + Len(sub) - 1 <= Len(s)
    /\ SubSeq(s, i, i + Len(sub) - 1) = sub

(***************************************************************************)
(* The words of the command line.                                          *)
(***************************************************************************)
sX == <<"-", "X">>
sH == <<"-", "H">>
sd == <<"-", "d">>
su == <<"-", "u">>
sk == <<"-", "k">>
si == <<"-", "i">>
sL == <<"-", "L">>
ss == <<"-", "s">>
lRequest == <<"-", "-", "r", "e", "q", "u", "e", "s", "t">>
lHeader == <<"-", "-", "h", "e", "a", "d", "e", "r">>
lData == <<"-", "-", "d", "a", "t", "a">>
lDataRaw == <<"-", "-", "d", "a", "t", "a", "-", "r", "a", "w">>
lDataBinary == <<"-", "-", "d", "a", "t", "a", "-", "b", "i", "n", "a", "r", "y">>
lUser == <<"-", "-", "u", "s", "e", "r">>
lInsecure == <<"-", "-", "i", "n", "s", "e", "c", "u", "r", "e">>
lInclude == <<"-", "-", "i", "n", "c", "l", "u", "d", "e">>
lLocation == <<"-", "-", "l", "o", "c", "a", "t", "i", "o", "n">>
lCompressed == <<"-", "-", "c", "o", "m", "p", "r", "e", "s", "s", "e", "d">>
lSilent == <<"-", "-", "s", "i", "l", "e", "n", "t">>
DashDash == <<"-", "-">>

GET == <<"G", "E", "T">>
POST == <<"P", "O", "S", "T">>

ContentType == <<"C", "o", "n", "t", "e", "n", "t", "-", "T", "y", "p", "e">>
contentType == <<"c", "o", "n", "t", "e", "n", "t", "-", "t", "y", "p", "e">>
ApplicationJson ==
  <<"a", "p", "p", "l", "i", "c", "a", "t", "i", "o", "n", "/", "j", "s", "o", "n">>

(***************************************************************************)
(* The options the program declares (program.option(...)) and commander's  *)
(* parse of process.argv against them, with allowUnknownOption().          *)
(***************************************************************************)
\* The option a flag names, "none" for a flag the program does not declare.
FindOption(arg) ==
  CASE arg \in {sX, lRequest} -> "request"
    [] arg \in {sH, lHeader} -> "header"
    [] arg \in {sd, lData} -> "data"
    [] arg = lDataRaw -> "dataRaw"
    [] arg = lDataBinary -> "dataBinary"
    [] arg \in {su, lUser} -> "user"
    [] arg \in {sk, lInsecure} -> "insecure"
    [] arg \in {si, lInclude} -> "include"
    [] arg \in {sL, lLocation} -> "location"
    [] arg = lCompressed -> "compressed"
    [] arg \in {ss, lSilent} -> "silent"
    [] OTHER -> "none"

\* An option declared with a <value>.
TakesValue(name) ==
  name \in {"request", "header", "data", "dataRaw", "dataBinary", "user"}

\* Helper to collect repeated options (like -H)
collect(value, previous) == previous \o <<value>>

\* The options object before any flag is read: the declared defaults.
DefaultOptions ==
  [request |-> GET, header |-> <<>>, data |-> Undefined, dataRaw |-> Undefined,
   dataBinary |-> Undefined, user |-> Undefined, insecure |-> FALSE,
   include |-> FALSE, location |-> FALSE, compressed |-> FALSE,
   silent |-> FALSE]

\* A declared option read with its value: the last occurrence is kept,
\* except -H, which collects.
SetValue(opts, name, value) ==
  CASE name = "request" -> [opts EXCEPT !.request = value]
    [] name = "header" -> [opts EXCEPT !.header = collect(value, opts.header)]
    [] name = "data" -> [opts EXCEPT !.data = Str(value)]
    [] name = "dataRaw" -> [opts EXCEPT !.dataRaw = Str(value)]
    [] name = "dataBinary" -> [opts EXCEPT !.dataBinary = Str(value)]
    [] name = "user" -> [opts EXCEPT !.user = Str(value)]
    [] OTHER -> opts

\* A declared boolean flag read.
SetFlag(opts, name) ==
  CASE name = "insecure" -> [opts EXCEPT !.insecure = TRUE]
    [] name = "include" -> [opts EXCEPT !.include = TRUE]
    [] name = "location" -> [opts EXCEPT !.location = TRUE]
    [] name = "compressed" -> [opts EXCEPT !.compressed = TRUE]
    [] name = "silent" -> [opts EXCEPT !.silent = TRUE]
    [] OTHER -> opts

\* commander: an argument that looks like an option
maybeOption(arg) == Len(arg) > 1 /\ arg[1] = "-"

\* The index of the first "=" of arg, 0 when there is none.
IndexOfEq(arg) ==
  IF \E i \in 1..Len(arg) : arg[i] = "="
  THEN CHOOSE i \in 1..Len(arg) : arg[i] = "=" /\ \A j \in 1..(i - 1) : arg[j] # "="
  ELSE 0

RECURSIVE parseOptions(_, _, _, _, _)
\* commander's Command.parseOptions over the declared options.  A declared
\* flag is read wherever it stands; a declared flag with a value takes the
\* next argument whatever it is; -sk is -s -k and -XPOST is -X POST;
\* --long=value is --long value.  An argument that looks like an option and is
\* not declared is, under allowUnknownOption(), kept as an ordinary argument:
\* it and every later argument that is not a declared option go to `unknown`.
parseOptions(args, opts, operands, unknown, toUnknown) ==
  IF args = <<>>
  THEN [ok |-> TRUE, opts |-> opts, operands |-> operands, unknown |-> unknown]
  ELSE
    LET arg == Head(args)
        rest == Tail(args)
        name == FindOption(arg)
        first == IF Len(arg) > 2 /\ arg[1] = "-" /\ arg[2] # "-"
                 THEN FindOption(<<"-", arg[2]>>) ELSE "none"
        eq == IF Len(arg) > 2 /\ arg[1] = "-" /\ arg[2] = "-" /\ arg[3] # "="
              THEN IndexOfEq(arg) ELSE 0
        long == IF eq > 0 THEN FindOption(SubSeq(arg, 1, eq - 1)) ELSE "none"
    IN
    IF arg = DashDash
    THEN [ok |-> TRUE, opts |-> opts,
          operands |-> IF toUnknown THEN operands ELSE operands \o rest,
          unknown |-> IF toUnknown THEN unknown \o <<arg>> \o rest ELSE unknown]
    ELSE IF maybeOption(arg) /\ name # "none"
    THEN IF TakesValue(name)
         THEN IF rest = <<>>
              THEN [ok |-> FALSE, opts |-> opts, operands |-> operands,
                    unknown |-> unknown]
              ELSE parseOptions(Tail(rest), SetValue(opts, name, Head(rest)),
                                operands, unknown, toUnknown)
         ELSE parseOptions(rest, SetFlag(opts, name), operands, unknown, toUnknown)
    ELSE IF first # "none"
    THEN IF TakesValue(first)
         THEN parseOptions(rest, SetValue(opts, first, SubSeq(arg, 3, Len(arg))),
                           operands, unknown, toUnknown)
         ELSE parseOptions(<<(<<"-">> \o SubSeq(arg, 3, Len(arg)))>> \o rest,
                           SetFlag(opts, first), operands, unknown, toUnknown)
    ELSE IF long # "none" /\ TakesValue(long)
    THEN parseOptions(rest, SetValue(opts, long, SubSeq(arg, eq + 1, Len(arg))),
                      operands, unknown, toUnknown)
    ELSE LET tu == toUnknown \/ maybeOption(arg)
         IN parseOptions(rest, opts,
                         IF tu THEN operands ELSE Append(operands, arg),
                         IF tu THEN Append(unknown, arg) ELSE unknown, tu)

\* program.parse(process.argv): the options, and the command's arguments
\* (operands, then the unknown ones), of which the first is <url>.  A declared
\* flag without its value, or no argument for <url>, is a usage error.
parse(args) ==
  LET p == parseOptions(args, DefaultOptions, <<>>, <<>>, FALSE)
      cmdArgs == p.operands \o p.unknown
  IN [ok |-> p.ok /\ cmdArgs # <<>>,
      options |-> p.opts,
      url |-> IF cmdArgs # <<>> THEN cmdArgs[1] ELSE <<>>]

(***************************************************************************)
(* The request: the first half of the action handler, up to the call of    *)
(* axios.                                                                  *)
(***************************************************************************)
\* A JavaScript object with string keys and string values, as the sequence of
\* its entries in insertion order.
HasKey(obj, k) == \E i \in 1..Len(obj) : obj[i].k = k

\* obj[k]
Get(obj, k) ==
  IF HasKey(obj, k)
  THEN Str(obj[CHOOSE i \in 1..Len(obj) : obj[i].k = k].v)
  ELSE Undefined

\* obj[k] = v
Put(obj, k, v) ==
  IF HasKey(obj, k)
  THEN [i \in 1..Len(obj) |-> IF obj[i].k = k THEN [k |-> k, v |-> v] ELSE obj[i]]
  ELSE Append(obj, [k |-> k, v |-> v])

\* The body of the forEach over options.header: one "Key: Value".
headerEntry(headers, h) ==
  LET parts == Split(h, ":")
      key == Head(parts)
      valueParts == Tail(parts)
  IN IF key # <<>> /\ Len(valueParts) > 0
     THEN Put(headers, Trim(key), Trim(Join(valueParts, ":")))
     ELSE headers

RECURSIVE parseHeaders(_, _)
\* options.header.forEach(...), from the empty headers object
parseHeaders(hs, headers) ==
  IF hs = <<>> THEN headers
  ELSE parseHeaders(Tail(hs), headerEntry(headers, Head(hs)))

\* The unification with the precedence turned round.
unifyDataReversed(opts) == OrElse(OrElse(opts.dataBinary, opts.dataRaw), opts.data)

\* const data = options.data || options.dataRaw || options.dataBinary
unifyData(opts) == OrElse(OrElse(opts.data, opts.dataRaw), opts.dataBinary)

\* The injection done only when no header at all was given.
injectContentTypeIfNoHeaders(headers, body) ==
  IF Truthy(body) /\ headers = <<>>
  THEN Put(headers, ContentType, ApplicationJson)
  ELSE headers

\* Automatically add Content-Type: application/json if data is present and
\* not specified.
injectContentType(headers, body) ==
  IF /\ Truthy(body)
     /\ ~Truthy(Get(headers, ContentType))
     /\ ~Truthy(Get(headers, contentType))
  THEN Put(headers, ContentType, ApplicationJson)
  ELSE headers

NoAuth == [def |-> FALSE, username |-> Undefined, password |-> Undefined]

\* Handle Basic Auth: const [username, password] = options.user.split(":")
basicAuth(user) ==
  IF Truthy(user)
  THEN LET parts == Split(user.s, ":")
       IN [def |-> TRUE, username |-> Str(parts[1]),
           password |-> IF Len(parts) >= 2 THEN Str(parts[2]) ELSE Undefined]
  ELSE NoAuth

\* The axios config the handler builds from the url and the options.
buildConfig(u, opts) ==
  LET body == unifyData(opts)
  IN [method |-> opts.request,
      url |-> u,
      headers |-> injectContentType(parseHeaders(opts.header, <<>>), body),
      data |-> body,
      auth |-> basicAuth(opts.user),
      rejectUnauthorized |-> ~opts.insecure]

NoConfig ==
  [method |-> <<>>, url |-> <<>>, headers |-> <<>>, data |-> Undefined,
   auth |-> NoAuth, rejectUnauthorized |-> TRUE]

\* axios's own default, which the handler replaces: 2xx only.
validateStatusDefault(status) == status >= 200 /\ status < 300

\* validateStatus: () => true, accept all status codes
validateStatus(status) == TRUE

(***************************************************************************)
(* JavaScript values that JSON text denotes, JSON.parse and JSON.stringify. *)
(* Every value is a record of the same shape, so that any two compare.     *)
(* An object is its keys and its members' values in insertion order.       *)
(***************************************************************************)
JNull == [t |-> "null", b |-> FALSE, n |-> 0, s |-> <<>>, keys |-> <<>>, kids |-> <<>>]

JBool(b) == [JNull EXCEPT !.t = "bool", !.b = b]

JNum(n) == [JNull EXCEPT !.t = "num", !.n = n]

JStr(s) == [JNull EXCEPT !.t = "str", !.s = s]

JArr(kids) == [JNull EXCEPT !.t = "arr", !.kids = kids]

JObj(keys, kids) == [JNull EXCEPT !.t = "obj", !.keys = keys, !.kids = kids]

DigitChars == <<"0", "1", "2", "3", "4", "5", "6", "7", "8", "9">>

IsDigit(c) == \E i \in 1..10 : DigitChars[i] = c

DigitVal(c) == (CHOOSE i \in 1..10 : DigitChars[i] = c) - 1

RECURSIVE NatToChars(_)
\* String(n) for a natural number
NatToChars(n) ==
  IF n < 10 THEN <<DigitChars[n + 1]>>
  ELSE NatToChars(n \div 10) \o <<DigitChars[(n % 10) + 1]>>

\* String(v) for a value that is not an object: what JSON.parse reads when it
\* is handed a non-string, and what console.log writes.
StringOf(v) ==
  CASE v.t = "str" -> v.s
    [] v.t = "num" -> NatToChars(v.n)
    [] v.t = "bool" -> IF v.b THEN <<"t", "r", "u", "e">>
                       ELSE <<"f", "a", "l", "s", "e">>
    [] OTHER -> <<"n", "u", "l", "l">>

ParseFail == [ok |-> FALSE, val |-> JNull, pos |-> 0]

ParseOk(v, pos) == [ok |-> TRUE, val |-> v, pos |-> pos]

RECURSIVE SkipWS(_, _)
\* the first index from i on that holds no JSON white space
SkipWS(s, i) ==
  IF i <= Len(s) /\ s[i] \in {" ", "\n", "\t", "\r"} THEN SkipWS(s, i + 1) ELSE i

StartsWithAt(s, i, lit) ==
  i + Len(lit) - 1 <= Len(s) /\ SubSeq(s, i, i + Len(lit) - 1) = lit

RECURSIVE DigitsEnd(_, _)
DigitsEnd(s, i) == IF i <= Len(s) /\ IsDigit(s[i]) THEN DigitsEnd(s, i + 1) ELSE i

RECURSIVE NumVal(_, _, _)
\* the number the digits s[i..j] spell
NumVal(s, i, j) ==
  IF j < i THEN 0 ELSE NumVal(s, i, j - 1) * 10 + DigitVal(s[j])

\* A JSON number at s[i], a digit: 0, or digits with no leading 0 (the texts
\* of the model hold no sign, fraction or exponent).
ParseNumber(s, i) ==
  IF s[i] = "0" THEN ParseOk(JNum(0), i + 1)
  ELSE LET j == DigitsEnd(s, i) IN ParseOk(JNum(NumVal(s, i, j - 1)), j)

RECURSIVE ScanString(_, _, _)
\* A JSON string's characters from s[j] to its closing quote; the escapes
\* read are \" \\ \/ and \n, and a raw line break is an error.
ScanString(s, j, acc) ==
  IF j > Len(s) THEN ParseFail
  ELSE IF s[j] = "\"" THEN ParseOk(JStr(acc), j + 1)
  ELSE IF s[j] \in {"\n", "\t", "\r"} THEN ParseFail
  ELSE IF s[j] = "\\"
  THEN IF j + 1 > Len(s) THEN ParseFail
       ELSE IF s[j + 1] \in {"\"", "\\", "/"}
       THEN ScanString(s, j + 2, Append(acc, s[j + 1]))
       ELSE IF s[j + 1] = "n" THEN ScanString(s, j + 2, Append(acc, "\n"))
       ELSE ParseFail
  ELSE ScanString(s, j + 1, Append(acc, s[j]))

\* obj[k] = v on a parsed object: a repeated key keeps its place and takes the
\* later value.
SetMember(obj, k, v) ==
  IF \E i \in 1..Len(obj.keys) : obj.keys[i] = k
  THEN [obj EXCEPT !.kids = [i \in 1..Len(obj.kids) |->
                               IF obj.keys[i] = k THEN v ELSE obj.kids[i]]]
  ELSE [obj EXCEPT !.keys = Append(obj.keys, k), !.kids = Append(obj.kids, v)]

RECURSIVE ParseValue(_, _)
RECURSIVE ParseElements(_, _, _)
RECURSIVE ParseMembers(_, _, _)

\* A JSON value from s[i] on, white space skipped.
ParseValue(s, i) ==
  LET j == SkipWS(s, i)
  IN IF j > Len(s) THEN ParseFail
     ELSE IF s[j] = "{"
     THEN LET k == SkipWS(s, j + 1)
          IN IF k <= Len(s) /\ s[k] = "}" THEN ParseOk(JObj(<<>>, <<>>), k + 1)
             ELSE ParseMembers(s, k, JObj(<<>>, <<>>))
     ELSE IF s[j] = "["
     THEN LET k == SkipWS(s, j + 1)
          IN IF k <= Len(s) /\ s[k] = "]" THEN ParseOk(JArr(<<>>), k + 1)
             ELSE ParseElements(s, k, <<>>)
     ELSE IF s[j] = "\"" THEN ScanString(s, j + 1, <<>>)
     ELSE IF IsDigit(s[j]) THEN ParseNumber(s, j)
     ELSE IF StartsWithAt(s, j, <<"t", "r", "u", "e">>)
     THEN ParseOk(JBool(TRUE), j + 4)
     ELSE IF StartsWithAt(s, j, <<"f", "a", "l", "s", "e">>)
     THEN ParseOk(JBool(FALSE), j + 5)
     ELSE IF StartsWithAt(s, j, <<"n", "u", "l", "l">>)
     THEN ParseOk(JNull, j + 4)
     ELSE ParseFail

\* The elements of an array from s[i] on: value ("," value)* "]".
ParseElements(s, i, acc) ==
  LET r == ParseValue(s, i)
      j == SkipWS(s, r.pos)
  IN IF ~r.ok \/ j > Len(s) THEN ParseFail
     ELSE IF s[j] = "]" THEN ParseOk(JArr(Append(acc, r.val)), j + 1)
     ELSE IF s[j] = "," THEN ParseElements(s, j + 1, Append(acc, r.val))
     ELSE ParseFail

\* The members of an object from s[i] on: string ":" value ("," ...)* "}".
ParseMembers(s, i, obj) ==
  LET j == SkipWS(s, i)
      key == IF j <= Len(s) /\ s[j] = "\"" THEN ScanString(s, j + 1, <<>>)
             ELSE ParseFail
      c == IF key.ok THEN SkipWS(s, key.pos) ELSE 0
      r == IF key.ok /\ c <= Len(s) /\ s[c] = ":" THEN ParseValue(s, c + 1)
           ELSE ParseFail
      e == IF r.ok THEN SkipWS(s, r.pos) ELSE 0
  IN IF ~r.ok \/ e > Len(s) THEN ParseFail
     ELSE IF s[e] = "}" THEN ParseOk(SetMember(obj, key.val.s, r.val), e + 1)
     ELSE IF s[e] = "," THEN ParseMembers(s, e + 1, SetMember(obj, key.val.s, r.val))
     ELSE ParseFail

\* JSON.parse(text): the value, or ok = FALSE where JSON.parse throws.
JSONparse(text) ==
  LET r == ParseValue(text, 1)
  IN IF r.ok /\ SkipWS(text, r.pos) > Len(text)
     THEN [ok |-> TRUE, val |-> r.val]
     ELSE [ok |-> FALSE, val |-> JNull]

RECURSIVE Escape(_)
Escape(s) ==
  IF s = <<>> THEN <<>>
  ELSE (CASE Head(s) = "\"" -> <<"\\", "\"">>
          [] Head(s) = "\\" -> <<"\\", "\\">>
          [] Head(s) = "\n" -> <<"\\", "n">>
          [] OTHER -> <<Head(s)>>) \o Escape(Tail(s))

\* A string as JSON text.
Quote(s) == <<"\"">> \o Escape(s) \o <<"\"">>

RECURSIVE JoinAll(_, _)
\* parts joined by the text sep
JoinAll(parts, sep) ==
  IF parts = <<>> THEN <<>>
  ELSE IF Len(parts) = 1 THEN parts[1]
  ELSE parts[1] \o sep \o JoinAll(Tail(parts), sep)

RECURSIVE Serialize(_, _, _)
\* JSON.stringify's serialization of v with the indent unit gap, at the
\* indentation indent.  An empty gap gives the compact text.
Serialize(v, gap, indent) ==
  LET inner == indent \o gap
      open == IF gap = <<>> THEN <<>> ELSE <<"\n">> \o inner
      sep == IF gap = <<>> THEN <<",">> ELSE <<",", "\n">> \o inner
      close == IF gap = <<>> THEN <<>> ELSE <<"\n">> \o indent
      colon == IF gap = <<>> THEN <<":">> ELSE <<":", " ">>
  IN CASE v.t = "arr" ->
            IF v.kids = <<>> THEN <<"[", "]">>
            ELSE <<"[">> \o open
                 \o JoinAll([i \in 1..Len(v.kids) |-> Serialize(v.kids[i], gap, inner)], sep)
                 \o close \o <<"]">>
       [] v.t = "obj" ->
            IF v.kids = <<>> THEN <<"{", "}">>
            ELSE <<"{">> \o open
                 \o JoinAll([i \in 1..Len(v.kids) |->
                              Quote(v.keys[i]) \o colon
                              \o Serialize(v.kids[i], gap, inner)], sep)
                 \o close \o <<"}">>
       [] v.t = "str" -> Quote(v.s)
       [] OTHER -> StringOf(v)

\* the indent the handler asks JSON.stringify for
Indent == 2

\* JSON.stringify(v, null, space)
JSONstringify(v, space) == Serialize(v, [i \in 1..space |-> " "], <<>>)

(***************************************************************************)
(* The outcome of the axios call, and the second half of the handler:      *)
(* output handling, and the catch block.                                   *)
(***************************************************************************)
\* A line written by console.log, console.warn or console.error.
Line(kind) ==
  [kind |-> kind, code |-> 0, text |-> "", k |-> <<>>, v |-> <<>>,
   chars |-> <<>>, hl |-> FALSE]

\* What the axios call settles to for the server's behaviour n: the promise
\* resolves with a response whose status validateStatus accepts, and rejects
\* otherwise, with the failure's shape (error.response, error.request, or
\* neither).
axiosResolves(n) == n.kind = "response" /\ validateStatus(n.status)

errorShape(n) == IF n.kind = "response" THEN "response" ELSE n.shape

\* response.data for the body the server sent: the text as it came, or, when
\* the text is JSON, the value the client decoded from it (the handler's
\* branches on typeof response.data provide for both).
responseData(body) ==
  {JStr(body)} \cup (IF body # <<>> /\ JSONparse(body).ok
                     THEN {JSONparse(body).val} ELSE {})

\* response.request.protocol?.split(":")[1] || "1.1"
httpVersion(protocol) ==
  IF protocol.def /\ Len(Split(protocol.s, ":")) >= 2
                  /\ Split(protocol.s, ":")[2] # <<>>
  THEN Split(protocol.s, ":")[2]
  ELSE <<"1", ".", "1">>

\* 1. Print Headers if -i is set
printHeaders(n, opts) ==
  IF opts.include
  THEN <<[Line("status") EXCEPT !.code = n.status, !.text = n.statusText,
                                !.chars = httpVersion(n.protocol)]>>
       \o [i \in 1..Len(n.headers) |->
             [Line("header") EXCEPT !.k = n.headers[i].k, !.v = n.headers[i].v]]
       \o <<Line("blank")>>
  ELSE <<>>

\* The warning for a status >= 400, unless silent.
printWarning(n, opts) ==
  IF n.status >= 400 /\ ~opts.silent
  THEN <<[Line("warning") EXCEPT !.code = n.status, !.text = n.statusText]>>
  ELSE <<>>

\* contentType && contentType.includes("application/json")
isJsonHeader(n) ==
  LET ct == Get(n.headers, contentType)
  IN Truthy(ct) /\ Includes(ct.s, ApplicationJson)

\* highlight(JSON.stringify(value, null, 2), ...)
pretty(value) ==
  [Line("body") EXCEPT !.chars = JSONstringify(value, Indent), !.hl = TRUE]

\* console.log(response.data)
raw(d) == [Line("body") EXCEPT !.chars = StringOf(d)]

\* 2. Print Body (Pretty JSON)
printBody(n, d) ==
  IF d.t \in {"arr", "obj"} THEN pretty(d)
  ELSE IF isJsonHeader(n)
  THEN LET json == JSONparse(StringOf(d))
       IN IF json.ok THEN pretty(json.val) ELSE raw(d)
  ELSE raw(d)

\* The line the catch block writes for a failure of the given shape.
errorLine(n) ==
  CASE errorShape(n) = "response" ->
         [Line("error-response") EXCEPT !.code = n.status, !.text = n.statusText]
    [] errorShape(n) = "request" -> Line("error-no-response")
    [] OTHER -> [Line("error-message") EXCEPT !.text = n.message]

\* The catch block with -s ignored.
catchOutputLoud(n, opts) == <<errorLine(n)>>

\* The catch block's output on the error stream.
catchOutput(n, opts) == IF opts.silent THEN <<>> ELSE <<errorLine(n)>>

(***************************************************************************)
(* The steps of one invocation.                                            *)
(***************************************************************************)
\* program.parse(process.argv): commander reads the flags and either calls
\* the action or ends the process with a usage error.
Parse ==
  /\ pc = "start"
  /\ LET p == parse(argv)
     IN IF p.ok
        THEN /\ pc' = "parsed"
             /\ options' = p.options
             /\ url' = p.url
             /\ UNCHANGED <<stderr, exitCode>>
        ELSE /\ pc' = "exited"
             /\ stderr' = <<Line("usage")>>
             /\ exitCode' = 1
             /\ UNCHANGED <<options, url>>
  /\ UNCHANGED <<argv, net, config, data, stdout>>

\* The action handler up to `await axios(config)`.
Request ==
  /\ pc = "parsed"
  /\ config' = buildConfig(url, options)
  /\ pc' = "awaiting"
  /\ UNCHANGED <<argv, net, options, url, data, stdout, stderr, exitCode>>

\* The axios call resolves with a response, whose data is kept in `data`:
\* output handling, and the process ends.
Resolve ==
  /\ pc = "awaiting"
  /\ axiosResolves(net)
  /\ \E d \in responseData(net.body) :
       /\ data' = d
       /\ stdout' = printHeaders(net, options) \o <<printBody(net, d)>>
  /\ stderr' = printWarning(net, options)
  /\ exitCode' = 0
  /\ pc' = "exited"
  /\ UNCHANGED <<argv, net, options, url, config>>

\* The axios call rejects: the catch block.
Reject ==
  /\ pc = "awaiting"
  /\ ~axiosResolves(net)
  /\ stderr' = catchOutput(net, options)
  /\ exitCode' = 1
  /\ pc' = "exited"
  /\ UNCHANGED <<argv, net, options, url, config, data, stdout>>

(***************************************************************************)
(* The command lines and the server behaviours the invocations are drawn   *)
(* from.                                                                   *)
(***************************************************************************)
URL == <<"h", "t", "t", "p", ":", "/", "/", "a">>

CONTENTTYPE == <<"C", "O", "N", "T", "E", "N", "T", "-", "T", "Y", "P", "E">>

TextPlain == <<"t", "e", "x", "t", "/", "p", "l", "a", "i", "n">>

JsonCharset == ApplicationJson \o <<";", " ", "c", "h", "a", "r", "s", "e", "t", "=", "u", "t", "f", "-", "8">>

\* All sequences of at most n elements of S.
SeqsUpTo(S, n) == UNION {[1..k -> S] : k \in 0..n}

\* The values of -H: a name alone, a name and a colon, a name with a value,
\* for Content-Type in three casings, another name and no name; and values
\* with spaces around the colon, a second colon, and a blank name.
HeaderNames == {ContentType, contentType, CONTENTTYPE, <<"A">>, <<>>}

HeaderValues ==
  HeaderNames
    \cup {nm \o <<":">> : nm \in HeaderNames}
    \cup {nm \o <<":", " ", "t">> : nm \in HeaderNames}
    \cup {<<" ", "A", " ", ":", " ", "a", ":", "b", " ">>, <<" ", ":", "v">>}

\* The values of the body flags.
DataValues == {<<>>, <<"x">>, <<"y">>}

DataFlags == {sd, lData, lDataRaw, lDataBinary}

\* The values of -u.
UserValues ==
  {<<>>, <<"u">>, <<"u", ":">>, <<"u", ":", "p">>, <<"u", ":", "p", ":", "q">>,
   <<":", "p">>, <<"u", ":", ":">>, <<"u", ":", "p", ":">>}

\* Flags the program does not declare.
UnknownFlags == {<<"-", "v">>, <<"-", "-", "f", "a", "i", "l">>}

\* Command lines of declared flags only, as groups of words that belong
\* together (a flag with its value).
BaseCommands ==
  {<<>>,
   <<(<<URL>>)>>,
   <<(<<ss>>), (<<URL>>)>>,
   <<(<<URL>>), (<<sd, <<"x">>>>)>>,
   <<(<<sX, POST>>), (<<URL>>), (<<sk>>)>>,
   <<(<<lUser, <<"u", ":", "p">>>>), (<<URL>>), (<<sH, <<"A", ":", "t">>>>)>>,
   <<(<<(<<"-", "s", "k">>)>>), (<<(<<"-", "X">> \o POST)>>), (<<URL>>)>>,
   <<(<<(lRequest \o <<"=">> \o POST)>>), (<<URL>>), (<<lDataRaw>>)>>}

RECURSIVE WithUnknown(_)
\* The base commands with at most n undeclared flags added between groups.
WithUnknown(n) ==
  IF n = 0 THEN BaseCommands
  ELSE LET prev == WithUnknown(n - 1)
       IN prev \cup {SubSeq(b, 1, p) \o <<(<<f>>)>> \o SubSeq(b, p + 1, Len(b)) :
                       <<b, p, f>> \in {<<b, p, f>> \in prev \X (0..(2 + n)) \X UnknownFlags :
                                           p <= Len(b)}}

\* The JSON values the server's bodies denote.
BodyValues ==
  {JNull, JBool(TRUE), JNum(0), JNum(12), JStr(<<>>), JStr(<<"h", "i">>),
   JStr(<<"1">>), JStr(<<"a", "\"", "b", "\n">>), JArr(<<>>),
   JArr(<<JNum(1), JStr(<<"a">>)>>), JObj(<<>>, <<>>),
   JObj(<<(<<"a">>)>>, <<JNum(1)>>),
   JObj(<<(<<"a">>), (<<"b">>)>>,
        <<JObj(<<(<<"c">>)>>, <<JArr(<<JNull>>)>>), JBool(FALSE)>>)}

\* Texts that are not JSON, then JSON texts with a repeated key and with
\* white space.
OtherBodies ==
  {<<>>, <<"h", "e", "l", "l", "o">>, <<"{">>, <<"<", "p", ">">>,
   <<"{", "a", ":", "1", "}">>, <<"[", "1", " ", "2", "]">>,
   <<"{", "\"", "a", "\"", ":", "1", ",", "}">>,
   <<"{", "\"", "a", "\"", ":", "1", "}", " ", "x">>,
   <<"0", "1">>, <<"\"", "h", "i">>,
   <<"{", "\"", "a", "\"", ":", "1", ",", "\"", "b", "\"", ":", "2", ",",
     "\"", "a", "\"", ":", "3", "}">>,
   <<" ", "[", " ", "1", " ", ",", "\n", "t", "r", "u", "e", "]", "\n">>,
   <<" ", "7">>}

Bodies ==
  {JSONstringify(v, 0) : v \in BodyValues}
    \cup {JSONstringify(v, Indent) : v \in BodyValues}
    \cup OtherBodies

Statuses == {200, 399, 400, 500}

StatusText(status) ==
  CASE status = 200 -> "OK"
    [] status = 400 -> "Bad Request"
    [] status = 500 -> "Internal Server Error"
    [] OTHER -> ""

ResponseHeaders ==
  {<<>>,
   <<[k |-> contentType, v |-> ApplicationJson]>>,
   <<[k |-> <<"d", "a", "t", "e">>, v |-> <<"0">>], [k |-> contentType, v |-> JsonCharset]>>,
   <<[k |-> contentType, v |-> TextPlain]>>}

HttpProtocol == Str(<<"h", "t", "t", "p", ":">>)

Response(status, headers, body) ==
  [kind |-> "response", status |-> status, statusText |-> StatusText(status),
   headers |-> headers, body |-> body, shape |-> "none", message |-> "",
   protocol |-> HttpProtocol]

Failure(shape, status, message) ==
  [kind |-> "error", status |-> status, statusText |-> StatusText(status),
   headers |-> <<>>, body |-> <<>>, shape |-> shape, message |-> message,
   protocol |-> Undefined]

Responses ==
  {Response(st, h, b) : <<st, h, b>> \in Statuses \X ResponseHeaders \X Bodies}

Failures ==
  {Failure("response", 500, ""), Failure("request", 0, ""),
   Failure("other", 0, "Invalid URL")}

\* One response and one failure, for the runs that vary the command line.
FewOutcomes ==
  {Response(200, <<[k |-> contentType, v |-> ApplicationJson]>>,
            <<"{", "\"", "a", "\"", ":", "1", "}">>),
   Failure("request", 0, "")}

HeaderCommands ==
  {<<URL>> \o Concat([i \in 1..Len(hs) |-> <<sH, hs[i]>>]) \o d :
     <<hs, d>> \in SeqsUpTo(HeaderValues, MaxHeaderFlags)
                     \X {<<>>, <<sd, <<>>>>, <<sd, <<"x">>>>}}

DataCommands ==
  {<<URL>> \o Concat([i \in 1..Len(ds) |-> <<ds[i][1], ds[i][2]>>]) :
     ds \in SeqsUpTo(DataFlags \X DataValues, MaxDataFlags)}

UserCommands ==
  {<<URL, su, u>> \o k : <<u, k>> \in UserValues \X {<<>>, <<sk>>}}

UnknownCommands == {Concat(b) : b \in WithUnknown(MaxUnknownFlags)}

RenderCommands ==
  {<<URL>> \o s \o i : <<s, i>> \in {<<>>, <<ss>>} \X {<<>>, <<si>>}}

\* An invocation: a command line and what the server will do.
Runs ==
  ((HeaderCommands \cup DataCommands \cup UserCommands \cup UnknownCommands)
     \X FewOutcomes)
    \cup (RenderCommands \X (Responses \cup Failures))

Init ==
  /\ \E r \in Runs : argv = r[1] /\ net = r[2]
  /\ pc = "start"
  /\ options = DefaultOptions
  /\ url = <<>>
  /\ config = NoConfig
  /\ data = JNull
  /\ stdout = <<>>
  /\ stderr = <<>>
  /\ exitCode = -1

Next == Parse \/ Request \/ Resolve \/ Reject

Spec == Init /\ [][Next]_vars

(***************************************************************************)
(* What the properties below are stated in: the command line as the user   *)
(* wrote it, the request as sent, and the output as written.               *)
(***************************************************************************)
UpperChars ==
  <<"A", "B", "C", "D", "E", "F", "G", "H", "I", "J", "K", "L", "M", "N", "O",
    "P", "Q", "R", "S", "T", "U", "V", "W", "X", "Y", "Z">>

LowerChars ==
  <<"a", "b", "c", "d", "e", "f", "g", "h", "i", "j", "k", "l", "m", "n", "o",
    "p", "q", "r", "s", "t", "u", "v", "w", "x", "y", "z">>

LowerChar(c) ==
  IF \E i \in 1..26 : UpperChars[i] = c
  THEN LowerChars[CHOOSE i \in 1..26 : UpperChars[i] = c]
  ELSE c

LowerCase(s) == [i \in 1..Len(s) |-> LowerChar(s[i])]

\* The index of the first colon of s, 0 when it has none.
FirstColon(s) ==
  IF \E i \in 1..Len(s) : s[i] = ":"
  THEN CHOOSE i \in 1..Len(s) : s[i] = ":" /\ \A j \in 1..(i - 1) : s[j] # ":"
  ELSE 0

BeforeColon(s) == SubSeq(s, 1, FirstColon(s) - 1)

AfterColon(s) == SubSeq(s, FirstColon(s) + 1, Len(s))

\* A -H value that names a header: it has a colon and text before it.
WellFormed(h) == FirstColon(h) > 1

HeaderKey(h) == Trim(BeforeColon(h))

HeaderValue(h) == Trim(AfterColon(h))

IsContentTypeName(k) == LowerCase(k) = contentType

\* The -H values of the command line that name Content-Type in some casing.
ContentTypeFlags ==
  {i \in 1..Len(options.header) :
     WellFormed(options.header[i]) /\ IsContentTypeName(HeaderKey(options.header[i]))}

\* The request has been built and handed to axios.
Requested == pc = "awaiting"

\* A body flag was given, with whatever value.
BodySupplied == options.data.def \/ options.dataRaw.def \/ options.dataBinary.def

\* A body flag was given with a value that is not empty.
NonEmptyBodySupplied ==
  Truthy(options.data) \/ Truthy(options.dataRaw) \/ Truthy(options.dataBinary)

\* The server answered the request, and the process has ended.
Answered == pc = "exited" /\ config # NoConfig /\ net.kind = "response"

\* The axios call failed, and the process has ended.
Failed == pc = "exited" /\ config # NoConfig /\ net.kind = "error"

BodyLines == {i \in 1..Len(stdout) : stdout[i].kind = "body"}

\* The one body line of the output, the last line written.
BodyLine == stdout[Len(stdout)]

\* The password of the Basic authentication: an undefined one is sent empty.
PasswordSent(auth) == IF auth.password.def THEN auth.password.s ELSE <<>>

RECURSIVE FirstBodyFlagValue(_)
\* The value of the body flag that stands first on the command line.
FirstBodyFlagValue(args) ==
  IF Len(args) < 2 THEN Undefined
  ELSE IF FindOption(Head(args)) \in {"data", "dataRaw", "dataBinary"}
  THEN Str(args[2])
  ELSE IF TakesValue(FindOption(Head(args)))
  THEN FirstBodyFlagValue(Tail(Tail(args)))
  ELSE FirstBodyFlagValue(Tail(args))

RECURSIVE LastValueOf(_, _, _)
\* The value the command line gives an option last, found so far `seen`.
LastValueOf(args, name, seen) ==
  IF Len(args) < 2 THEN seen
  ELSE IF FindOption(Head(args)) = name
  THEN LastValueOf(Tail(Tail(args)), name, Str(args[2]))
  ELSE IF TakesValue(FindOption(Head(args)))
  THEN LastValueOf(Tail(Tail(args)), name, seen)
  ELSE LastValueOf(Tail(args), name, seen)

RECURSIVE NoEmptyBodyFlagValue(_)
\* Every body flag of the command line has a value that is not empty.
NoEmptyBodyFlagValue(args) ==
  IF Len(args) < 2 THEN TRUE
  ELSE IF FindOption(Head(args)) \in {"data", "dataRaw", "dataBinary"}
  THEN args[2] # <<>> /\ NoEmptyBodyFlagValue(Tail(Tail(args)))
  ELSE IF TakesValue(FindOption(Head(args)))
  THEN NoEmptyBodyFlagValue(Tail(Tail(args)))
  ELSE NoEmptyBodyFlagValue(Tail(args))

\* How many of the three body options the command line gives.
BodyFlagsGiven ==
  Cardinality({nm \in {"data", "dataRaw", "dataBinary"} :
                 LastValueOf(argv, nm, Undefined).def})

\* The command line without the flags the program does not declare.
WithoutUnknown(args) == SelectSeq(args, LAMBDA a : a \notin UnknownFlags)

HasUnknown(args) == \E i \in 1..Len(args) : args[i] \in UnknownFlags

(***************************************************************************)
(* The properties.                                                         *)
(***************************************************************************)

\* C1, as stated: whenever a body flag supplies a request body and no -H value
\* names Content-Type in any casing, the request sent has the header
\* Content-Type: application/json.
C1_BodyGetsContentType ==
  (Requested /\ BodySupplied /\ ContentTypeFlags = {})
    => Get(config.headers, ContentType) = Str(ApplicationJson)

\* C1, amended: whenever a body flag supplies a request body that is not
\* empty and no -H value names Content-Type in any casing, the request sent
\* has the header Content-Type: application/json.
C1_NonEmptyBodyGetsContentType ==
  (Requested /\ NonEmptyBodySupplied /\ ContentTypeFlags = {})
    => Get(config.headers, ContentType) = Str(ApplicationJson)

\* C1's case: a body that is not empty, another header given and a malformed
\* Content-Type entry, and the request carries the injected header.
C1_Witness ==
  /\ Requested
  /\ NonEmptyBodySupplied
  /\ ContentTypeFlags = {}
  /\ \E i \in 1..Len(options.header) : WellFormed(options.header[i])
  /\ \E i \in 1..Len(options.header) : options.header[i] = ContentType
  /\ Get(config.headers, ContentType) = Str(ApplicationJson)

\* C2: of the -H values, one with no colon or with nothing before its first
\* colon adds no key to the request headers; every other one gives the key
\* trimmed from the text before its first colon and the value trimmed from
\* all the text after it; and for a key given more than once the request
\* carries the value of the last one.
C2_HeadersAreLastWins ==
  Requested =>
    /\ \A i \in 1..Len(config.headers) :
         \/ \E j \in 1..Len(options.header) :
              /\ WellFormed(options.header[j])
              /\ HeaderKey(options.header[j]) = config.headers[i].k
         \/ /\ config.headers[i] = [k |-> ContentType, v |-> ApplicationJson]
            /\ Truthy(config.data)
    /\ \A j \in 1..Len(options.header) :
         WellFormed(options.header[j]) =>
           LET last == CHOOSE m \in j..Len(options.header) :
                         /\ WellFormed(options.header[m])
                         /\ HeaderKey(options.header[m]) = HeaderKey(options.header[j])
                         /\ \A q \in (m + 1)..Len(options.header) :
                              ~(/\ WellFormed(options.header[q])
                                /\ HeaderKey(options.header[q])
                                     = HeaderKey(options.header[j]))
           IN Get(config.headers, HeaderKey(options.header[j]))
                = Str(HeaderValue(options.header[last]))

\* C3: when -u is given (with a value that is not empty), the username is the
\* text before the first colon of its value and the password all the text
\* after it, further colons included; with no colon the password is the empty
\* string (a password left undefined is sent as the empty string, and counts
\* as one).
C3_UserSplitOnFirstColon ==
  (Requested /\ Truthy(options.user)) =>
    /\ config.auth.def
    /\ config.auth.username
         = Str(IF FirstColon(options.user.s) > 0 THEN BeforeColon(options.user.s)
               ELSE options.user.s)
    /\ PasswordSent(config.auth)
         = (IF FirstColon(options.user.s) > 0 THEN AfterColon(options.user.s)
            ELSE <<>>)

C6_RawBodyUnchanged ==
  Answered =>
    /\ (data.t \notin {"arr", "obj"} /\ ~isJsonHeader(net))
         => (BodyLine.chars = net.body /\ ~BodyLine.hl)
    /\ (isJsonHeader(net) /\ ~JSONparse(net.body).ok)
         => /\ BodyLine.chars = net.body
            /\ ~BodyLine.hl
            /\ \A i \in 1..Len(stderr) : stderr[i].kind = "warning"
            /\ exitCode = 0

\* C7: for every response whose body is JSON text and whose Content-Type
\* contains application/json, the body line is the 2-space indented JSON text
\* of the value the body denotes, and parsing the line gives that value.
C7_PrettyRoundTrip ==
  (Answered /\ isJsonHeader(net) /\ JSONparse(net.body).ok) =>
    /\ JSONparse(BodyLine.chars).ok
    /\ JSONparse(BodyLine.chars).val = JSONparse(net.body).val
    /\ BodyLine.chars = JSONstringify(JSONparse(net.body).val, 2)

\* C8: a command line with undeclared flags added, wherever they stand, is no
\* usage error and builds the request that the command line without them
\* builds.
C8_UnknownFlagsIgnored ==
  LET base == parse(WithoutUnknown(argv))
  IN (HasUnknown(argv) /\ base.ok /\ pc # "start") =>
       /\ parse(argv).ok
       /\ Requested => config = buildConfig(base.url, base.options)

\* C9, as stated, for body flags whose values are all non-empty: when more
\* than one of the body options is given, the request body is the value of the
\* body flag that stands first on the command line.
C9_FirstSpecifiedWins ==
  (Requested /\ BodyFlagsGiven > 1 /\ NoEmptyBodyFlagValue(argv))
    => config.data = FirstBodyFlagValue(argv)

\* C9, amended: when more than one of the body options is given, the request
\* body is fixed by their values alone, wherever the flags stand: the value
\* of -d/--data if it is not empty, else the value of --data-raw if it is not
\* empty, else the value of --data-binary (no body when that was not given),
\* each option counting with the value given to it last.
C9_FixedPrecedenceWins ==
  (Requested /\ BodyFlagsGiven > 1) =>
    LET d == LastValueOf(argv, "data", Undefined)
        r == LastValueOf(argv, "dataRaw", Undefined)
        b == LastValueOf(argv, "dataBinary", Undefined)
    IN config.data = IF d.def /\ d.s # <<>> THEN d
                     ELSE IF r.def /\ r.s # <<>> THEN r
                     ELSE b

\* C9's case: --data-raw y stands before -d x, and the body is x.
C9_Witness ==
  /\ Requested
  /\ BodyFlagsGiven > 1
  /\ FirstBodyFlagValue(argv) = Str(<<"y">>)
  /\ FindOption(argv[2]) = "dataRaw"
  /\ options.data = Str(<<"x">>)
  /\ config.data = Str(<<"x">>)

\* C10: when a -H value names Content-Type, in any casing and with any value,
\* the request carries exactly one header named Content-Type in any casing,
\* with the key and the value the user gave, with or without a body.
C10_ExplicitContentTypeKept ==
  (Requested /\ ContentTypeFlags # {}) =>
    \E j \in ContentTypeFlags :
      /\ {config.headers[i].k : i \in {m \in 1..Len(config.headers) :
                                         IsContentTypeName(config.headers[m].k)}}
           = {HeaderKey(options.header[j])}
      /\ Get(config.headers, HeaderKey(options.header[j]))
           = Str(HeaderValue(options.header[j]))

====
